---- MODULE Spec2Model ----
(***************************************************************************)
(* A model of the influencer pipeline of source_code.ipynb:                *)
(*   - the Markov-clustering parameter search (mc_train,                   *)
(*     markov_grand_loop),                                                 *)
(*   - the spectral parameter search (spectral, spectral_2,                *)
(*     spectral_post_process, balance_score_clusters,                      *)
(*     spectral_grand_loop),                                               *)
(*   - the community filter (separate_communities),                        *)
(*   - the centrality ranker (degree_centrality, close_centrality,         *)
(*     eigencentrality, create_list_of_local_influencers).                 *)
(* Each component has a specification of its own (SpecFlow, SpecSpectral,  *)
(* SpecFilter, SpecRank); the variables of the other components rest at    *)
(* their idle values.                                                      *)
(*                                                                         *)
(* Numerical library routines are modelled by their results:               *)
(*   - a modularity (a float) is an integer level in MinMod..MaxMod;       *)
(*   - an inflation i/10 is the integer i (tenths);                        *)
(*   - the labels k-means / k-medoids give are any labelling of the rows;  *)
(*   - a standard deviation is the exact rational of its square;           *)
(*   - a graph is a simple undirected graph: a set of nodes and a set of   *)
(*     two-element edges; a community handed to the ranker lists its nodes *)
(*     in the order in which they are iterated;                            *)
(*   - a centrality (a float) is the exact rational it rounds;             *)
(*   - the eigenvector centralities are any scores with one leading node   *)
(*     or with all nodes level.                                            *)
(***************************************************************************)
EXTENDS Integers, Sequences, FiniteSets, TLC

VARIABLES
    pc,                     \* where the running function stands
    \* ---- markov_grand_loop
    expand_start, expand_end, infl_start, infl_end,
    next_expand,            \* the value the loop variable i takes next
    max_expand, grand_max_infl, grand_max_modularity,
    mod_ser_by_expansion,
    final_cluster,
    \* ---- spectral_grand_loop
    graph, k_start, k_end,
    next_k,                 \* the value the loop variable r takes next
    k_m, dev_soc, min_std_dev, best_k, spectral_result,
    \* ---- separate_communities
    Dgraph, communities,
    next_i,                 \* the position in communities the loop takes next
    comm,
    \* ---- create_list_of_local_influencers
    mode,
    len_communi,            \* len(communi)
    next_com,               \* the position in communi the loop takes next
    com,                    \* the community of the last pass
    influencer_list

flowVars == <<expand_start, expand_end, infl_start, infl_end, next_expand,
              max_expand, grand_max_infl, grand_max_modularity,
              mod_ser_by_expansion, final_cluster>>
spectralVars == <<graph, k_start, k_end, next_k, k_m, dev_soc, min_std_dev,
                  best_k, spectral_result>>
filterVars == <<Dgraph, communities, next_i, comm>>
rankVars == <<mode, len_communi, next_com, com, influencer_list>>
vars == <<pc, flowVars, spectralVars, filterVars, rankVars>>

\* What a variable holds before the code assigns it.
NoCluster == [expansion |-> 0 - 1, inflation |-> 0 - 1]
NoGraph == [nodes |-> {}, edges |-> {}]
NoCommunity == [nodes |-> <<>>, edges |-> {}]
NoScore == [num |-> <<>>, den |-> 1]

(***************************************************************************)
(* Bounds of the model.                                                    *)
(***************************************************************************)
MaxExpand == 3          \* expansion factors MinExpand..MaxExpand
MaxInflIdx == 12        \* inflation indices MinInflIdx..MaxInflIdx (tenths)
MaxMod == 2             \* modularity levels MinMod..MaxMod

\* markov_test sweeps expansion from 2 and inflation from 11 tenths.
MinExpand == 2
MinInflIdx == 11
MinMod == 0 - 1
Mods == MinMod..MaxMod

(***************************************************************************)
(* Markov clustering: mc_loop, mc_loop_final, mc_train, markov_grand_loop  *)
(***************************************************************************)

\* [i / 10 for i in range(start, end)]: the inflation of index i, in tenths.
Inflation(i) == i

\* mc.run_mcl opens with "assert expansion > 1" and "assert inflation > 1"
\* (markov_clustering's mcl.py); infl is in tenths.
run_mcl_accepts(exp, infl) == exp > 1 /\ infl > 10

\* mc_loop_final: the clusters run_mcl gives are a function of (exp, infl);
\* they are named by the parameters of the run.
mc_loop_final(exp, infl) == [expansion |-> exp, inflation |-> infl]

\* "if (Q > max_mod)" of mc_train, and the same test with >= (last maximum wins).
ImprovesOrTies(Q, max_mod) == Q >= max_mod
Improves(Q, max_mod) == Q > max_mod

\* The loop of mc_train over the modularities Qs of the inflation indices
\* start, start+1, ...; n of them are done.
RECURSIVE mc_train_from(_, _, _, _, _)
mc_train_from(Qs, start, n, max_infl, max_mod) ==
    IF n = Len(Qs)
    THEN [max_infl |-> max_infl, max_mod |-> max_mod, mod_series |-> Qs]
    ELSE LET Q == Qs[n + 1]
             inflation == Inflation(start + n)
         IN  IF Improves(Q, max_mod)
             THEN mc_train_from(Qs, start, n + 1, inflation, Q)
             ELSE mc_train_from(Qs, start, n + 1, max_infl, max_mod)

\* mc_train(mat, expand, start, end), given the modularities mc_loop returns.
mc_train(Qs, start) == mc_train_from(Qs, start, 0, 0, 0)

\* "if grand_max_modularity < curr_max_mod" of markov_grand_loop, and the
\* same test with <= .
GrandImprovesOrTies(grand, curr) == grand <= curr
GrandImproves(grand, curr) == grand < curr

\* The inflation indices range(infl_start, infl_end).
InflRange == infl_start..(infl_end - 1)

\* One pass of "for i in range(expand_start, expand_end+1)": mc_train runs
\* mc_loop for every inflation of the row; a run run_mcl refuses raises.
GrandLoopStep ==
    /\ pc = "grand_loop"
    /\ next_expand <= expand_end
    /\ \E Qs \in [1..(infl_end - infl_start) -> Mods] :
         IF \A i \in InflRange : run_mcl_accepts(next_expand, Inflation(i))
         THEN LET t == mc_train(Qs, infl_start)
              IN  /\ mod_ser_by_expansion' = Append(mod_ser_by_expansion, t.mod_series)
                  /\ IF GrandImproves(grand_max_modularity, t.max_mod)
                     THEN /\ max_expand' = next_expand
                          /\ grand_max_infl' = t.max_infl
                          /\ grand_max_modularity' = t.max_mod
                     ELSE UNCHANGED <<max_expand, grand_max_infl, grand_max_modularity>>
                  /\ next_expand' = next_expand + 1
                  /\ pc' = pc
         ELSE /\ pc' = "raised"
              /\ UNCHANGED <<mod_ser_by_expansion, max_expand, grand_max_infl,
                             grand_max_modularity, next_expand>>
    /\ UNCHANGED <<expand_start, expand_end, infl_start, infl_end, final_cluster>>
    /\ UNCHANGED <<spectralVars, filterVars, rankVars>>

\* After the loop: draw_graph (no state), then mc_loop_final with the
\* selected pair.
FinalRun ==
    /\ pc = "grand_loop"
    /\ next_expand > expand_end
    /\ IF run_mcl_accepts(max_expand, grand_max_infl)
       THEN /\ final_cluster' = mc_loop_final(max_expand, grand_max_infl)
            /\ pc' = "returned"
       ELSE /\ final_cluster' = final_cluster
            /\ pc' = "raised"
    /\ UNCHANGED <<expand_start, expand_end, infl_start, infl_end, next_expand,
                   max_expand, grand_max_infl, grand_max_modularity,
                   mod_ser_by_expansion>>
    /\ UNCHANGED <<spectralVars, filterVars, rankVars>>

(***************************************************************************)
(* Exact arithmetic for balance scores.  statistics.stdev works on exact   *)
(* fractions; cluster sizes of a large graph square beyond 32 bits, so a   *)
(* natural number is kept as its digits in base Base, lowest digit first,  *)
(* without leading zeros (zero is << >>).                                  *)
(***************************************************************************)
Base == 10000

RECURSIVE BigOf(_)
BigOf(n) == IF n = 0 THEN <<>> ELSE <<n % Base>> \o BigOf(n \div Base)

RECURSIVE BigAddCarry(_, _, _)
BigAddCarry(a, b, c) ==
    IF a = <<>> /\ b = <<>>
    THEN BigOf(c)
    ELSE LET da == IF a = <<>> THEN 0 ELSE Head(a)
             db == IF b = <<>> THEN 0 ELSE Head(b)
             ta == IF a = <<>> THEN <<>> ELSE Tail(a)
             tb == IF b = <<>> THEN <<>> ELSE Tail(b)
             sum == da + db + c
         IN  <<sum % Base>> \o BigAddCarry(ta, tb, sum \div Base)

BigAdd(a, b) == BigAddCarry(a, b, 0)

\* a times the small number m (0 <= m <= Base).
RECURSIVE BigTimesCarry(_, _, _)
BigTimesCarry(a, m, c) ==
    IF a = <<>>
    THEN BigOf(c)
    ELSE LET prod == Head(a) * m + c
         IN  <<prod % Base>> \o BigTimesCarry(Tail(a), m, prod \div Base)

BigTimes(a, m) == IF m = 0 THEN <<>> ELSE BigTimesCarry(a, m, 0)

BigShift(a) == IF a = <<>> THEN <<>> ELSE <<0>> \o a

RECURSIVE BigMul(_, _)
BigMul(a, b) ==
    IF b = <<>>
    THEN <<>>
    ELSE BigAdd(BigTimes(a, Head(b)), BigShift(BigMul(a, Tail(b))))

RECURSIVE BigLess(_, _)
BigLess(a, b) ==
    IF Len(a) # Len(b)
    THEN Len(a) < Len(b)
    ELSE IF a = <<>>
         THEN FALSE
         ELSE LET n == Len(a)
              IN  IF a[n] # b[n]
                  THEN a[n] < b[n]
                  ELSE BigLess(SubSeq(a, 1, n - 1), SubSeq(b, 1, n - 1))

\* A score is the standard deviation sqrt(num / den), den > 0.
ScoreLess(x, y) == BigLess(BigTimes(x.num, y.den), BigTimes(y.num, x.den))
ScoreEq(x, y) == BigTimes(x.num, y.den) = BigTimes(y.num, x.den)

\* The score of the plain number x (x >= 0).
NumberScore(x) == [num |-> BigMul(BigOf(x), BigOf(x)), den |-> 1]

(***************************************************************************)
(* Spectral clustering: spectral, spectral_2, spectral_post_process,       *)
(* balance_score_clusters, spectral_grand_loop                             *)
(***************************************************************************)
MaxOrder == 4           \* graphs of MinOrder..MaxOrder nodes, all labellings
MaxK == 3               \* candidate k in 2..MaxK
MinOrder == MaxK

\* "min_std_dev = 99999"
StartStdDev == 99999

\* A graph whose cluster sizes deviate by StartStdDev and more for every
\* candidate k: when all nodes but k-1 fall into one cluster the deviation is
\* (n - k) / sqrt(k).
HugeOrder == 250000

Abs(x) == IF x < 0 THEN 0 - x ELSE x

\* The function f on 1..n as a list (the same value; a list is indexed in
\* constant time).
AsList(f) == SubSeq(f, 1, Len(f))

\* The range of a sequence.
Range(seq) == {seq[j] : j \in 1..Len(seq)}

\* The path on the nodes first..last.
PathGraph(first, last) ==
    [nodes |-> first..last,
     edges |-> {{j, j + 1} : j \in first..(last - 1)}]

\* dgl.graph((n1, n2)) names its nodes 0..n-1; a graph named 1..n is the
\* other input.
GraphsOfOrder(n) == {PathGraph(0, n - 1), PathGraph(1, n)}

\* The labels stand for what the eigenvectors and the clusterer make of the
\* edges, so the huge graph is given by its nodes alone.
HugeGraph == [nodes |-> 0..(HugeOrder - 1), edges |-> {}]

SpectralGraphs ==
    UNION {GraphsOfOrder(n) : n \in MinOrder..MaxOrder} \cup {HugeGraph}

\* G.number_of_nodes()
number_of_nodes(G) == Cardinality(G.nodes)

\* A labelling that keeps all rows but the last k-1 in cluster 0.
SkewedLabels(n, k) ==
    AsList([j \in 1..n |-> IF j <= n - (k - 1) THEN 0 ELSE j - (n - (k - 1))])

\* km.labels_.tolist(): one label in 0..k-1 per row of the embedding, each
\* label on some row.  For a graph of the bounded orders every such
\* labelling; for the huge one a skewed one.
Labelings(n, k) ==
    IF n <= MaxOrder
    THEN {labels \in [1..n -> 0..(k - 1)] :
            \A c \in 0..(k - 1) : \E j \in 1..n : labels[j] = c}
    ELSE {SkewedLabels(n, k)}

\* spectral(G, n): node_no = list(range(1, G.number_of_nodes() + 1)), and
\* dict(zip(node_no, labels)): the dict is its keys in insertion order and
\* the label of each key (key j is the j-th of node_no, so its label is the
\* j-th label).
spectral(G, labels) ==
    LET node_no == AsList([j \in 1..number_of_nodes(G) |-> j])
    IN  [keys |-> node_no,
         label |-> AsList([key \in 1..number_of_nodes(G) |-> labels[key]])]

\* spectral_2(G, n): the same with the labels of KMedoids.
spectral_2(G, labels) ==
    LET node_no == AsList([j \in 1..number_of_nodes(G) |-> j])
    IN  [keys |-> node_no,
         label |-> AsList([key \in 1..number_of_nodes(G) |-> labels[key]])]

\* spectral_post_process(n, node_and_labl): "for j in node_and_labl:
\* clusters[node_and_labl.get(j)].append(j)"; cluster c (0-based, kept at
\* index c+1) holds the keys labelled c, in the order of the dict.
spectral_post_process(n, node_and_labl) ==
    [c \in 1..n |->
        SelectSeq(node_and_labl.keys, LAMBDA j : node_and_labl.label[j] = c - 1)]

\* The sum over the pairs a < b of (size_a - size_b)^2.
RECURSIVE SumSquaredDiffs(_, _, _)
SumSquaredDiffs(sizes, a, b) ==
    IF a >= Len(sizes)
    THEN <<>>
    ELSE IF b > Len(sizes)
         THEN SumSquaredDiffs(sizes, a + 1, a + 2)
         ELSE LET d == BigOf(Abs(sizes[a] - sizes[b]))
              IN  BigAdd(BigMul(d, d), SumSquaredDiffs(sizes, a, b + 1))

\* balance_score_clusters(clust): statistics.stdev of the cluster sizes,
\* sqrt(sum (x - mean)^2 / (n - 1)) = sqrt(sum_{a<b} (x_a - x_b)^2 / (n (n - 1))).
balance_score_clusters(clust) ==
    LET num_of_node_in_cluster == [c \in 1..Len(clust) |-> Len(clust[c])]
        n == Len(clust)
    IN  [num |-> SumSquaredDiffs(num_of_node_in_cluster, 1, 2), den |-> n * (n - 1)]

\* dev_soc.index(x): the first index whose item equals x, 0 when there is
\* none (the code raises ValueError).
ListIndex(list, x) ==
    LET hits == {j \in 1..Len(list) : ScoreEq(list[j], x)}
    IN  IF hits = {} THEN 0 ELSE CHOOSE j \in hits : \A h \in hits : j <= h

\* One pass of "for r in range(k_start, k_end+1)"; pre_cluster, fin_cluster
\* and dev_score are its locals (each bound once, as the code computes it
\* once).
SweepStep ==
    /\ pc = "sweep"
    /\ next_k <= k_end
    /\ \E labels \in Labelings(number_of_nodes(graph), next_k) :
       \E pre_cluster \in {spectral_2(graph, labels)} :
       \E fin_cluster \in {spectral_post_process(next_k, pre_cluster)} :
       \E dev_score \in {balance_score_clusters(fin_cluster)} :
         /\ k_m' = Append(k_m, next_k)
         /\ min_std_dev' = IF ScoreLess(dev_score, min_std_dev)
                           THEN dev_score ELSE min_std_dev
         /\ dev_soc' = Append(dev_soc, dev_score)
    /\ next_k' = next_k + 1
    /\ pc' = pc
    /\ UNCHANGED <<graph, k_start, k_end, best_k, spectral_result>>
    /\ UNCHANGED <<flowVars, filterVars, rankVars>>

\* After the loop: the plot (no state), then
\* "best_k = k_m[ dev_soc.index(min_std_dev) ]".
SelectBestK ==
    /\ pc = "sweep"
    /\ next_k > k_end
    /\ LET at == ListIndex(dev_soc, min_std_dev)
       IN  IF at = 0
           THEN pc' = "raised" /\ best_k' = best_k
           ELSE pc' = "selected" /\ best_k' = k_m[at]
    /\ UNCHANGED <<graph, k_start, k_end, next_k, k_m, dev_soc, min_std_dev,
                   spectral_result>>
    /\ UNCHANGED <<flowVars, filterVars, rankVars>>

\* "best_pre_cluster = spectral(graph, best_k)" and the return.
FinalSpectral ==
    /\ pc = "selected"
    /\ \E labels \in Labelings(number_of_nodes(graph), best_k) :
       \E best_pre_cluster \in {spectral(graph, labels)} :
         spectral_result' = spectral_post_process(best_k, best_pre_cluster)
    /\ pc' = "returned"
    /\ UNCHANGED <<graph, k_start, k_end, next_k, k_m, dev_soc, min_std_dev,
                   best_k>>
    /\ UNCHANGED <<flowVars, filterVars, rankVars>>

(***************************************************************************)
(* The community filter: separate_communities                              *)
(***************************************************************************)
MaxFilterOrder == 5     \* the graphs filtered have 5..MaxFilterOrder nodes
MaxClusters == 2        \* communities holds up to MaxClusters clusters

\* "if len(i) <= 4: continue"
MinCommunitySize == 4

\* The elements of a set of integers, as an ascending list.
RECURSIVE Ascending(_)
Ascending(S) ==
    IF S = {} THEN <<>>
    ELSE LET m == CHOOSE x \in S : \A y \in S : x <= y
         IN  <<m>> \o Ascending(S \ {m})

\* The complete graph on the nodes first..last.
CompleteGraph(first, last) ==
    [nodes |-> first..last,
     edges |-> {{a, b} : a, b \in first..last} \ {{a} : a \in first..last}]

FilterGraphs ==
    UNION {{PathGraph(0, n - 1), PathGraph(1, n), CompleteGraph(0, n - 1)} :
           n \in (MinCommunitySize + 1)..MaxFilterOrder}

\* The clusters handed in: lists of distinct identifiers the clusterers can
\* give for G, which name the rows 0..n-1 or 1..n.
ClustersOf(G) ==
    {Ascending(S) : S \in SUBSET (0..number_of_nodes(G))}

\* Dgraph.subgraph(i): the nodes of i that are nodes of G (nbunch_iter passes
\* over the others) and the edges of G between them.
subgraph(G, nbunch) ==
    [nodes |-> {n \in G.nodes : n \in Range(nbunch)},
     edges |-> {e \in G.edges : e \subseteq Range(nbunch)}]

\* One pass of "for i in communities".
FilterStep ==
    /\ pc = "filter"
    /\ next_i <= Len(communities)
    /\ LET i == communities[next_i]
       IN  IF Len(i) <= MinCommunitySize
           THEN comm' = comm
           ELSE comm' = Append(comm, subgraph(Dgraph, i))
    /\ next_i' = next_i + 1
    /\ pc' = "filter"
    /\ UNCHANGED <<Dgraph, communities>>
    /\ UNCHANGED <<flowVars, spectralVars, rankVars>>

\* "return comm"
FilterReturn ==
    /\ pc = "filter"
    /\ next_i > Len(communities)
    /\ pc' = "returned"
    /\ UNCHANGED <<filterVars, flowVars, spectralVars, rankVars>>

(***************************************************************************)
(* The centrality ranker: degree_centrality, close_centrality,             *)
(* eigencentrality, create_list_of_local_influencers                       *)
(***************************************************************************)
MaxNode == 3            \* the nodes of a community are among 1..MaxNode
MaxCommunities == 2     \* communi holds up to MaxCommunities communities

\* The order of the star: a center and MaxNode + 2 leaves.
StarOrder == MaxNode + 3

\* "if mode == 1", "if mode == 2", "if mode == 3"; 0 is any other mode.
Modes == 0..3

Reverse(list) == [j \in 1..Len(list) |-> list[Len(list) - j + 1]]

\* The simple graphs on the nodes S.
GraphsOn(S) ==
    {[nodes |-> order, edges |-> E] :
        order \in {Ascending(S), Reverse(Ascending(S))},
        E \in SUBSET {e \in SUBSET S : Cardinality(e) = 2}}

\* The star with the given center on the nodes 1..StarOrder.
Star(center) ==
    {[nodes |-> order,
      edges |-> {{center, leaf} : leaf \in (1..StarOrder) \ {center}}] :
        order \in {Ascending(1..StarOrder), Reverse(Ascending(1..StarOrder))}}

\* The communities handed in; the empty one is among them.
Communities ==
    UNION {GraphsOn(S) : S \in SUBSET (1..MaxNode)}
        \cup UNION {Star(center) : center \in 1..StarOrder}

\* A centrality as a rational, and the order of the floats.
Rat(num, den) == [num |-> num, den |-> den]
RatLess(x, y) == x.num * y.den < y.num * x.den

\* G.degree(n)
degree(G, n) == Cardinality({e \in G.edges : n \in e})

\* nx.degree_centrality(G).items(): {n: 1} on at most one node, else the
\* degree over len(G) - 1, in the order of G's nodes.
nx_degree_centrality(G) ==
    [j \in 1..Len(G.nodes) |->
        <<G.nodes[j],
          IF Len(G.nodes) <= 1 THEN Rat(1, 1)
          ELSE Rat(degree(G, G.nodes[j]), Len(G.nodes) - 1)>>]

neighbors(G, n) == {m \in Range(G.nodes) : {n, m} \in G.edges}

\* nx.single_source_shortest_path_length: the sum of the distances to the
\* nodes reached and their number (the source included).
RECURSIVE shortest_path_length(_, _, _, _, _)
shortest_path_length(G, frontier, seen, d, totsp) ==
    IF frontier = {} THEN [totsp |-> totsp, reached |-> Cardinality(seen)]
    ELSE LET next == UNION {neighbors(G, n) : n \in frontier} \ seen
         IN  shortest_path_length(G, next, seen \cup next, d + 1,
                                  totsp + (d + 1) * Cardinality(next))

\* nx.closeness_centrality(G).items(), wf_improved: 0 unless totsp > 0 and
\* len(G) > 1, else ((r - 1) / totsp) * ((r - 1) / (len(G) - 1)).
nx_closeness_centrality(G) ==
    [j \in 1..Len(G.nodes) |->
        LET sp == shortest_path_length(G, {G.nodes[j]}, {G.nodes[j]}, 0, 0)
        IN  <<G.nodes[j],
              IF sp.totsp > 0 /\ Len(G.nodes) > 1
              THEN Rat((sp.reached - 1) * (sp.reached - 1),
                       sp.totsp * (Len(G.nodes) - 1))
              ELSE Rat(0, 1)>>]

\* nx.eigenvector_centrality(g2).items(), for a graph with nodes: one node
\* leads, or all are level.
nx_eigenvector_centrality(G) ==
    {[j \in 1..Len(G.nodes) |->
        <<G.nodes[j], IF lead \in {0, j} THEN Rat(1, 1) ELSE Rat(0, 1)>>] :
            lead \in 0..Len(G.nodes)}

\* sorted(list + [item], key = score), list being sorted: the item goes
\* behind the items that are not above it (the sort is stable).
insort(list, item) ==
    LET p == Cardinality({j \in 1..Len(list) : ~RatLess(item[2], list[j][2])})
    IN  SubSeq(list, 1, p) \o <<item>> \o SubSeq(list, p + 1, Len(list))

\* sorted(ctr.items(), key = lambda ctr: ctr[1])
RECURSIVE sorted(_)
sorted(items) ==
    IF Len(items) = 0 THEN <<>>
    ELSE insort(sorted(SubSeq(items, 1, Len(items) - 1)), items[Len(items)])

\* sorted_ctr.reverse() left out.
unreversed(list) == list

\* sorted_ctr.reverse()
reverse(list) == Reverse(list)

\* "lst.append(sorted_ctr[0][0])": an IndexError on an empty list.
append_first(lst, sorted_ctr) ==
    IF Len(sorted_ctr) = 0
    THEN /\ pc' = "raised"
         /\ influencer_list' = lst
    ELSE /\ pc' = "rank"
         /\ influencer_list' = Append(lst, sorted_ctr[1][1])

degree_centrality(G, lst) ==
    append_first(lst, reverse(sorted(nx_degree_centrality(G))))

close_centrality(G, lst) ==
    append_first(lst, reverse(sorted(nx_closeness_centrality(G))))

\* nx.eigenvector_centrality raises NetworkXPointlessConcept on the null
\* graph.
eigencentrality(G, lst) ==
    IF Len(G.nodes) = 0
    THEN /\ pc' = "raised"
         /\ influencer_list' = lst
    ELSE \E ctr \in nx_eigenvector_centrality(G) :
            append_first(lst, reverse(sorted(ctr)))

\* One pass of "for com in communi"; the community is drawn as the loop
\* comes to it.
RankStep ==
    /\ pc = "rank"
    /\ next_com <= len_communi
    /\ \E G \in Communities :
        /\ com' = G
        /\ \/ mode = 1 /\ degree_centrality(G, influencer_list)
           \/ mode = 2 /\ close_centrality(G, influencer_list)
           \/ mode = 3 /\ eigencentrality(G, influencer_list)
           \/ mode \notin {1, 2, 3} /\ pc' = "rank"
                /\ influencer_list' = influencer_list
    /\ next_com' = next_com + 1
    /\ UNCHANGED <<mode, len_communi>>
    /\ UNCHANGED <<flowVars, spectralVars, filterVars>>

\* "return influencer_list"
RankReturn ==
    /\ pc = "rank"
    /\ next_com > len_communi
    /\ pc' = "returned"
    /\ UNCHANGED <<rankVars, flowVars, spectralVars, filterVars>>

(***************************************************************************)
(* The specifications.                                                     *)
(***************************************************************************)
IdleFlow ==
    /\ expand_start = 0 /\ expand_end = 0 /\ infl_start = 0 /\ infl_end = 0
    /\ next_expand = 0
    /\ max_expand = 0 /\ grand_max_infl = 0 /\ grand_max_modularity = 0
    /\ mod_ser_by_expansion = <<>>
    /\ final_cluster = NoCluster

IdleSpectral ==
    /\ graph = NoGraph /\ k_start = 0 /\ k_end = 0 /\ next_k = 0
    /\ k_m = <<>> /\ dev_soc = <<>> /\ min_std_dev = NoScore
    /\ best_k = 0 /\ spectral_result = <<>>

IdleFilter ==
    /\ Dgraph = NoGraph /\ communities = <<>> /\ next_i = 0 /\ comm = <<>>

IdleRank ==
    /\ mode = 0 /\ len_communi = 0 /\ next_com = 0 /\ com = NoCommunity
    /\ influencer_list = <<>>

\* markov_grand_loop(matr, expand_start, expand_end, infl_start, infl_end)
\* is entered; the ranges may be empty.
InitFlow ==
    /\ pc = "grand_loop"
    /\ expand_start \in MinExpand..MaxExpand
    /\ expand_end \in (expand_start - 1)..MaxExpand
    /\ infl_start \in MinInflIdx..MaxInflIdx
    /\ infl_end \in infl_start..(MaxInflIdx + 1)
    /\ next_expand = expand_start
    /\ max_expand = 0 /\ grand_max_infl = 0 /\ grand_max_modularity = 0
    /\ mod_ser_by_expansion = <<>>
    /\ final_cluster = NoCluster
    /\ IdleSpectral /\ IdleFilter /\ IdleRank

NextFlow == GrandLoopStep \/ FinalRun

SpecFlow == InitFlow /\ [][NextFlow]_vars

\* spectral_grand_loop(graph, k_start, k_end) is entered; the range may be
\* empty.
InitSpectral ==
    /\ pc = "sweep"
    /\ graph \in SpectralGraphs
    /\ k_start \in 2..MaxK
    /\ k_end \in (k_start - 1)..MaxK
    /\ next_k = k_start
    /\ k_m = <<>> /\ dev_soc = <<>>
    /\ min_std_dev = NumberScore(StartStdDev)
    /\ best_k = 0 /\ spectral_result = <<>>
    /\ IdleFlow /\ IdleFilter /\ IdleRank

NextSpectral == SweepStep \/ SelectBestK \/ FinalSpectral

SpecSpectral == InitSpectral /\ [][NextSpectral]_vars

\* separate_communities(Dgraph, communities) is entered.
InitFilter ==
    /\ pc = "filter"
    /\ Dgraph \in FilterGraphs
    /\ \E n \in 0..MaxClusters : communities \in [1..n -> ClustersOf(Dgraph)]
    /\ next_i = 1
    /\ comm = <<>>
    /\ IdleFlow /\ IdleSpectral /\ IdleRank

NextFilter == FilterStep \/ FilterReturn

SpecFilter == InitFilter /\ [][NextFilter]_vars

\* create_list_of_local_influencers(communi, mode) is entered.
InitRank ==
    /\ pc = "rank"
    /\ mode \in Modes
    /\ len_communi \in 0..MaxCommunities
    /\ next_com = 1
    /\ com = NoCommunity
    /\ influencer_list = <<>>
    /\ IdleFlow /\ IdleSpectral /\ IdleFilter

NextRank == RankStep \/ RankReturn

SpecRank == InitRank /\ [][NextRank]_vars

\* create_list_of_local_influencers(communi, 1) is entered.
InitDegreeRank == InitRank /\ mode = 1

SpecDegreeRank == InitDegreeRank /\ [][NextRank]_vars

(***************************************************************************)
(* Claims about the flow parameter search.                                 *)
(***************************************************************************)

\* The (expansion, inflation index) pairs of the grid, and the modularity
\* the sweep recorded for one of them.
Grid == (expand_start..expand_end) \X InflRange
ModOf(p) == mod_ser_by_expansion[p[1] - expand_start + 1][p[2] - infl_start + 1]

\* markov_grand_loop has ended: it returned or it raised.
FlowEnded == pc \in {"returned", "raised"}

\* p comes no later than q in the sweep: expansion ascending, then inflation.
SweepLeq(p, q) == p[1] < q[1] \/ (p[1] = q[1] /\ p[2] <= q[2])

\* C1: when some combination of the grid has modularity > 0, the final
\* clustering run uses a grid pair whose modularity is the maximum of the
\* whole grid, and of the pairs with that maximum the first one of the sweep.
C1_FirstMaximumSelected ==
    (FlowEnded /\ \E p \in Grid : ModOf(p) > 0) =>
        /\ pc = "returned"
        /\ \E p \in Grid :
            /\ final_cluster = [expansion |-> p[1], inflation |-> Inflation(p[2])]
            /\ max_expand = p[1]
            /\ grand_max_infl = Inflation(p[2])
            /\ \A q \in Grid : ModOf(q) <= ModOf(p)
            /\ \A q \in Grid : ModOf(q) = ModOf(p) => SweepLeq(p, q)

\* C1's case: the maximum is positive and is reached by two pairs that
\* differ in expansion and in inflation; the search returned the first.
C1_Witness ==
    /\ pc = "returned"
    /\ \E p, q \in Grid :
        /\ p[1] < q[1] /\ q[2] < p[2]
        /\ ModOf(p) > 0 /\ ModOf(p) = ModOf(q)
        /\ \A r \in Grid : ModOf(r) <= ModOf(p)
        /\ \A r \in Grid : ModOf(r) = ModOf(p) => SweepLeq(p, r)
        /\ final_cluster = [expansion |-> p[1], inflation |-> Inflation(p[2])]

\* C5: over a single-element range the search returns the clusters of the
\* one direct run with that expansion and inflation, whatever its modularity.
C5_SingleTrialEqualsDirectRun ==
    (FlowEnded /\ expand_end = expand_start /\ infl_end = infl_start + 1) =>
        /\ pc = "returned"
        /\ final_cluster = mc_loop_final(expand_start, Inflation(infl_start))

\* C6: when no combination of the grid has modularity > 0 (or the grid is
\* empty) the search ends with the baseline pair (0, 0) and returns.
C6_BaselineFallbackReturns ==
    (FlowEnded /\ \A p \in Grid : ModOf(p) <= 0) =>
        /\ max_expand = 0 /\ grand_max_infl = 0
        /\ pc = "returned"

\* The half of C6 the code does satisfy: the baseline pair is what is
\* selected (and handed to the final run).
BaselineSelected ==
    (FlowEnded /\ \A p \in Grid : ModOf(p) <= 0) =>
        max_expand = 0 /\ grand_max_infl = 0

(***************************************************************************)
(* Claims about the spectral parameter search.                             *)
(***************************************************************************)

\* The selection step "best_k = k_m[dev_soc.index(min_std_dev)]" was taken.
SweepEnded == pc \in {"selected", "returned", "raised"}

\* The balance score the sweep recorded for k.
ScoreOfK(k) == dev_soc[k - k_start + 1]

\* C2: over a range k_start..k_end of candidates the selection step always
\* finds a k, and best_k is a k of minimum balance score, the smallest such
\* k on ties.
C2_MinimumBalanceSelected ==
    (SweepEnded /\ k_start <= k_end) =>
        /\ pc # "raised"
        /\ best_k \in k_start..k_end
        /\ \A k \in k_start..k_end :
            /\ ~ScoreLess(ScoreOfK(k), ScoreOfK(best_k))
            /\ ScoreEq(ScoreOfK(k), ScoreOfK(best_k)) => best_k <= k

\* The clusters are pairwise disjoint and their union is the node set of G.
HardPartition(clusters, G) ==
    /\ \A a, b \in 1..Len(clusters) :
        a # b => Range(clusters[a]) \cap Range(clusters[b]) = {}
    /\ UNION {Range(clusters[a]) : a \in 1..Len(clusters)} = G.nodes

\* C3: the cluster list spectral_grand_loop returns is the cluster set the
\* sweep evaluated for best_k, so its balance score is the minimum recorded.
C3_ReturnsEvaluatedClusters ==
    pc = "returned" =>
        ScoreEq(balance_score_clusters(spectral_result), min_std_dev)

\* C4: the clusters spectral_post_process makes of spectral's labels are a
\* hard partition of the node set of G, whatever G's node identifiers are.
C4_SpectralHardPartition ==
    pc = "returned" => HardPartition(spectral_result, graph)

(***************************************************************************)
(* Claims about the community filter.                                      *)
(***************************************************************************)

\* The clusters of communities with more than MinCommunitySize nodes, in
\* their order.
Kept == SelectSeq(communities, LAMBDA i : Len(i) > MinCommunitySize)

\* comm holds, cluster by cluster, the subgraph of Dgraph whose node set is
\* the cluster's and whose edges are Dgraph's edges inside the cluster.
InducedOnKept ==
    /\ Len(comm) = Len(Kept)
    /\ \A j \in 1..Len(Kept) :
        /\ comm[j].nodes = Range(Kept[j])
        /\ comm[j].edges = {e \in Dgraph.edges : e \subseteq Range(Kept[j])}

\* C7: separate_communities returns one induced subgraph for each cluster of
\* more than 4 nodes and none for the others, in the order of the clusters;
\* the node set of each is its cluster's node set, its edges are the graph's
\* edges with both ends in the cluster.
C7_InducedSubgraphPerLargeCluster ==
    pc = "returned" => InducedOnKept

\* With clusters made of nodes of Dgraph the filter returns just that.
FilterOfOwnNodes ==
    (/\ pc = "returned"
     /\ \A j \in 1..Len(communities) : Range(communities[j]) \subseteq Dgraph.nodes)
        => InducedOnKept

(***************************************************************************)
(* Claims about the centrality ranker.                                     *)
(***************************************************************************)

\* A pass of the loop has run on com and has appended its entry.
Ranked == next_com > 1 /\ pc # "raised"

LastEntry == influencer_list[Len(influencer_list)]

\* The nodes of G with the most incident edges inside G.
MaxDegreeNodes(G) ==
    {n \in Range(G.nodes) : \A m \in Range(G.nodes) : degree(G, m) <= degree(G, n)}

\* The nodes that share the maximum score.
TopNodes(items) ==
    {items[j][1] : j \in {j \in 1..Len(items) :
        \A k \in 1..Len(items) : ~RatLess(items[j][2], items[k][2])}}

\* In degree mode: only an empty community stops the ranker; there is one
\* entry per community passed, and the entry of the last one is a node of
\* it with the most incident edges inside it.
DegreeModeEntries ==
    mode = 1 =>
        /\ pc = "raised" => Len(com.nodes) = 0
        /\ pc # "raised" => Len(influencer_list) = next_com - 1
        /\ pc = "returned" => Len(influencer_list) = len_communi
        /\ Ranked => LastEntry \in MaxDegreeNodes(com)

\* The entries of the communities passed before stay as they are.
EntriesKept ==
    SubSeq(influencer_list', 1, Len(influencer_list)) = influencer_list

\* C8: in degree mode, for a list of non-empty communities, the result has
\* one entry per community in the order of the communities, and the i-th
\* entry is a node of the i-th community with the most incident edges inside
\* it (the center, for a star with 5 leaves).
C8_DegreeModeSelectsMaxDegree ==
    []DegreeModeEntries /\ [][EntriesKept]_vars

\* C8's case: the second of two communities is a star whose center is
\* entered.
C8_Witness ==
    /\ mode = 1 /\ pc = "returned" /\ Len(influencer_list) = 2
    /\ Len(com.nodes) = StarOrder
    /\ degree(com, LastEntry) = StarOrder - 1
    /\ \A n \in Range(com.nodes) \ {LastEntry} : degree(com, n) = 1

\* C9: in degree and in closeness mode the entry of a community is, of the
\* nodes that share the maximum score, the one with the lowest identifier,
\* whatever the order of the community's nodes.
C9_TieBreakLowestId ==
    /\ (Ranked /\ mode = 1) =>
            \A n \in TopNodes(nx_degree_centrality(com)) : LastEntry <= n
    /\ (Ranked /\ mode = 2) =>
            \A n \in TopNodes(nx_closeness_centrality(com)) : LastEntry <= n

\* C10: in each of the three modes a community of no node or one node does
\* not stop the ranker; it gets an entry, as the other communities do.
C10_SmallCommunityGetsEntry ==
    (mode \in {1, 2, 3} /\ Len(com.nodes) <= 1) =>
        /\ pc # "raised"
        /\ Len(influencer_list) = next_com - 1

====
